---- MODULE Spec2Model ----
(***************************************************************************)
(* A model of src/app.py (the cash-flow dashboard): the money parser       *)
(* _to_number, the workbook loader load_from_excel with its nested         *)
(* parse_cashflow and the payables extraction, the memoising decorator on  *)
(* the loader, the top-level script (file pick, load, aggregates) and the  *)
(* payables filter of the second tab.                                      *)
(*                                                                         *)
(* Text is a sequence of one-character strings; "NBSP" stands for the      *)
(* character U+00A0.  A float is a normalised decimal [neg, m, e] with     *)
(* value (-1)^neg * m * 10^e and m not divisible by 10 (m = 0 has e = 0);  *)
(* every float of the model has fewer than 15 significant digits, where a  *)
(* double and its shortest decimal form determine each other.              *)
(***************************************************************************)
EXTENDS Integers, Sequences, FiniteSets, TLC

VARIABLES
    cell,       \* the raw cell handed to _to_number
    res,        \* what _to_number(cell) did: a float, None, or an exception
    res2,       \* what _to_number(str(res)) did, once res is a float
    npc,        \* position of the normalizer run
    listing,    \* os.listdir("."): the file names of the working directory
    disk,       \* the workbook each .xlsx file of the directory holds
    cache,      \* st.cache_data's store for load_from_excel: path -> result
    parsed,     \* whether the last call of load_from_excel ran its body
    pc,         \* position of the script run
    diag,       \* the st.error message the run stopped with, if any
    excel_file, \* the script's excel_file (<<>> is None)
    cash_df,    \* the script's cash_df
    pay_df,     \* the script's pay_df
    monthly,    \* the script's monthly totals, in groupby order
    kpi,        \* peak_date_np, peak_np, peak_date_wp, peak_wp, jan_np, jan_wp
    q           \* the last call of scenario_peak or value_on, or the last tab2 render

numVars == <<cell, res, res2, npc>>
fileVars == <<listing, disk>>
runVars == <<pc, diag, excel_file, cash_df, pay_df, monthly, kpi, q>>
scriptVars == <<listing, disk, cache, parsed, pc, diag, excel_file, cash_df, pay_df, monthly, kpi, q>>

vars == <<cell, res, res2, npc, listing, disk, cache, parsed, pc, diag, excel_file,
          cash_df, pay_df, monthly, kpi, q>>

-----------------------------------------------------------------------------
(* Bounds of the model.                                                    *)

MaxLen == 4        \* longest free-form text cell
MaxDigits == 6     \* longest text cell made of digits, "." and "-"
MaxDate == 2       \* calendar dates are 1..MaxDate
MaxDateCols == 2   \* most value columns of a cashflow sheet
MaxRows == 3       \* most rows of a cashflow sheet under its header
MaxCells == 4      \* most value cells of a cashflow sheet
MaxPayRows == 2    \* most rows of the payables sheet

Dates == 1..MaxDate

-----------------------------------------------------------------------------
(* Python values.                                                          *)

None == [tag |-> "None"]
Float(v) == [tag |-> "float", v |-> v]
Raised == [tag |-> "raised"]
NoRun == [tag |-> "norun"]

Missing == [kind |-> "missing"]
Text(s) == [kind |-> "text", s |-> s]
FloatCell(v) == [kind |-> "float", v |-> v]
IntCell(n) == [kind |-> "int", n |-> n]
DateCell(d) == [kind |-> "date", d |-> d]

Digits == {"0", "1", "2", "3", "4", "5", "6", "7", "8", "9"}

DigitVal(c) ==
    CASE c = "0" -> 0 [] c = "1" -> 1 [] c = "2" -> 2 [] c = "3" -> 3
      [] c = "4" -> 4 [] c = "5" -> 5 [] c = "6" -> 6 [] c = "7" -> 7
      [] c = "8" -> 8 [] c = "9" -> 9

DigitChar(n) == <<"0", "1", "2", "3", "4", "5", "6", "7", "8", "9">>[n + 1]

RECURSIVE Pow10(_)
Pow10(n) == IF n <= 0 THEN 1 ELSE 10 * Pow10(n - 1)

RECURSIVE DigitsToNat(_)
DigitsToNat(ds) ==
    IF ds = <<>> THEN 0
    ELSE 10 * DigitsToNat(SubSeq(ds, 1, Len(ds) - 1)) + DigitVal(ds[Len(ds)])

RECURSIVE NatToDigits(_)
NatToDigits(n) ==
    IF n < 10 THEN <<DigitChar(n)>>
    ELSE Append(NatToDigits(n \div 10), DigitChar(n % 10))

RECURSIVE Zeros(_)
Zeros(n) == IF n <= 0 THEN <<>> ELSE <<"0">> \o Zeros(n - 1)

\* The float with value (-1)^neg * m * 10^e.
RECURSIVE MkFloat(_, _, _)
MkFloat(neg, m, e) ==
    IF m = 0 THEN [neg |-> neg, m |-> 0, e |-> 0]
    ELSE IF m % 10 = 0 THEN MkFloat(neg, m \div 10, e + 1)
    ELSE [neg |-> neg, m |-> m, e |-> e]

Count(s, c) == Cardinality({i \in 1..Len(s) : s[i] = c})

\* float(s): s holds only digits, "." and "-" here.  ok = FALSE is ValueError.
PyFloat(s) ==
    LET neg == s # <<>> /\ s[1] = "-"
        body == IF neg THEN Tail(s) ELSE s
        dots == {i \in 1..Len(body) : body[i] = "."}
        dot == IF dots = {} THEN Len(body) + 1 ELSE CHOOSE i \in dots : TRUE
        whole == SubSeq(body, 1, dot - 1)
        frac == SubSeq(body, dot + 1, Len(body))
    IN  IF \/ Count(body, "-") > 0
           \/ Cardinality(dots) > 1
           \/ Len(whole) + Len(frac) = 0
        THEN [ok |-> FALSE]
        ELSE [ok |-> TRUE,
              v |-> MkFloat(neg, DigitsToNat(whole \o frac), 0 - Len(frac))]

\* repr of a float: fixed notation while the decimal point position is in
\* -3..16, exponent notation otherwise.
FloatStr(v) ==
    LET ds == NatToDigits(v.m)
        n == Len(ds)
        decpt == n + v.e
        ex == decpt - 1
        exd == NatToDigits(IF ex < 0 THEN 0 - ex ELSE ex)
        mag ==
            IF v.m = 0 THEN <<"0", ".", "0">>
            ELSE IF decpt > -4 /\ decpt <= 16
            THEN IF decpt <= 0 THEN <<"0", ".">> \o Zeros(0 - decpt) \o ds
                 ELSE IF decpt >= n THEN ds \o Zeros(decpt - n) \o <<".", "0">>
                 ELSE SubSeq(ds, 1, decpt) \o <<".">> \o SubSeq(ds, decpt + 1, n)
            ELSE <<ds[1]>>
                 \o (IF n > 1 THEN <<".">> \o SubSeq(ds, 2, n) ELSE <<>>)
                 \o <<"e", IF ex < 0 THEN "-" ELSE "+">>
                 \o (IF Len(exd) < 2 THEN <<"0">> ELSE <<>>) \o exd
    IN  (IF v.neg THEN <<"-">> ELSE <<>>) \o mag

IntStr(n) == (IF n < 0 THEN <<"-">> ELSE <<>>) \o NatToDigits(IF n < 0 THEN 0 - n ELSE n)

\* str(Timestamp): month d of 2026, its last day written 28 for brevity.
DateStr(d) ==
    <<"2", "0", "2", "6", "-">> \o (IF d < 10 THEN <<"0">> ELSE <<>>)
    \o NatToDigits(d) \o <<"-", "2", "8", " ", "0", "0", ":", "0", "0", ":", "0", "0">>

\* str(x)
Str(x) ==
    CASE x.kind = "text" -> x.s
      [] x.kind = "float" -> FloatStr(x.v)
      [] x.kind = "int" -> IntStr(x.n)
      [] x.kind = "date" -> DateStr(x.d)

\* pd.isna(x) of a scalar
IsNa(x) == x.kind = "missing"

IsSpace(c) == c \in {" ", "NBSP"}

RECURSIVE LStrip(_)
LStrip(s) == IF s # <<>> /\ IsSpace(s[1]) THEN LStrip(Tail(s)) ELSE s

RECURSIVE RStrip(_)
RStrip(s) ==
    IF s # <<>> /\ IsSpace(s[Len(s)]) THEN RStrip(SubSeq(s, 1, Len(s) - 1)) ELSE s

\* str.strip()
Strip(s) == RStrip(LStrip(s))

LowerChar(c) ==
    CASE c = "N" -> "n" [] c = "A" -> "a" [] c = "U" -> "u" [] c = "P" -> "p"
      [] c = "M" -> "m" [] c = "X" -> "x" [] c = "L" -> "l" [] c = "S" -> "s"
      [] OTHER -> c

\* str.lower()
Lower(s) == [i \in 1..Len(s) |-> LowerChar(s[i])]

\* s.replace(" ", " ").replace(" ", "")
RemoveSpaces(s) == LET NotSpace(c) == c \notin {" ", "NBSP"} IN SelectSeq(s, NotSpace)

\* if "," in s and "." not in s: s = s.replace(",", ".")
DecimalComma(s) ==
    IF Count(s, ",") > 0 /\ Count(s, ".") = 0
    THEN [i \in 1..Len(s) |-> IF s[i] = "," THEN "." ELSE s[i]]
    ELSE s

\* re.sub(r"[^\d\.\-]", "", s)
StripOther(s) == LET Kept(c) == c \in Digits \cup {".", "-"} IN SelectSeq(s, Kept)

\* try: return float(s) / except: return None, with the exception let through
ParseUncaught(s) == IF PyFloat(s).ok THEN Float(PyFloat(s).v) ELSE Raised

\* try: return float(s) / except: return None
ParseOrNone(s) == IF PyFloat(s).ok THEN Float(PyFloat(s).v) ELSE None

_to_number(x) ==
    IF IsNa(x) THEN None
    ELSE LET s == Strip(Str(x))
         IN  IF s = <<>> \/ Lower(s) = <<"n", "a", "n">> THEN None
             ELSE ParseOrNone(StripOther(DecimalComma(RemoveSpaces(s))))

-----------------------------------------------------------------------------
(* Float arithmetic, exact on the decimals of the model.                   *)

Zero == MkFloat(FALSE, 0, 0)

\* The integer v * 10^(-e), for an exponent e no larger than v.e.
Scaled(v, e) == (IF v.neg THEN 0 - 1 ELSE 1) * v.m * Pow10(v.e - e)

FloatAdd(a, b) ==
    LET e == IF a.e < b.e THEN a.e ELSE b.e
        t == Scaled(a, e) + Scaled(b, e)
    IN  MkFloat(t < 0, IF t < 0 THEN 0 - t ELSE t, e)

FloatLess(a, b) ==
    LET e == IF a.e < b.e THEN a.e ELSE b.e IN Scaled(a, e) < Scaled(b, e)

FloatAbs(v) == [v EXCEPT !.neg = FALSE]

\* Series.abs() of one value: a missing value stays missing.
Abs(x) == IF x.tag = "float" THEN Float(FloatAbs(x.v)) ELSE x

\* Series.sum() of a column of floats and missing values (skipna): 0.0 when
\* nothing is left.
RECURSIVE FloatSum(_)
FloatSum(xs) ==
    IF xs = <<>> THEN Zero
    ELSE IF xs[Len(xs)].tag = "float"
    THEN FloatAdd(FloatSum(SubSeq(xs, 1, Len(xs) - 1)), xs[Len(xs)].v)
    ELSE FloatSum(SubSeq(xs, 1, Len(xs) - 1))

-----------------------------------------------------------------------------
(* Dates, sheets and data frames.                                          *)

NaT == [nat |-> TRUE]
Date(d) == [nat |-> FALSE, d |-> d]

\* pd.to_datetime(x, errors="coerce").dt.date of one value: a Timestamp is
\* its date, text written as a timestamp is parsed, anything else is NaT.
ToDate(x) ==
    IF x.kind = "date" THEN Date(x.d)
    ELSE IF x.kind = "text" /\ \E d \in Dates : x.s = DateStr(d)
    THEN Date(CHOOSE d \in Dates : x.s = DateStr(d))
    ELSE NaT

\* Series.astype(str) of one value
AsTypeStr(x) == IF x.kind = "missing" THEN <<"n", "a", "n">> ELSE Str(x)

\* sub in s
Contains(s, sub) ==
    \E i \in 0..(Len(s) - Len(sub)) : SubSeq(s, i + 1, i + Len(sub)) = sub

Indices(n) == [i \in 1..n |-> i]

Range(s) == {s[i] : i \in 1..Len(s)}

\* A sheet absent from the workbook, and pd.DataFrame(): no columns, no rows.
Absent == [present |-> FALSE]
EmptyFrame == [hascols |-> FALSE, rows |-> <<>>]
Frame(rows) == [hascols |-> TRUE, rows |-> rows]

\* DataFrame.empty
IsEmpty(df) == ~df.hascols \/ df.rows = <<>>

\* The scenario labels given to the two cashflow sheets.
WithPartners == "With Partners"
NoPartners == "No Partners"

NRows(raw) == Len(raw.cols[1].cells)

\* for c in raw.columns: if isinstance(raw.loc[0, c], pd.Timestamp)
SentinelDateCols(raw) ==
    LET IsTs(i) == raw.cols[i].cells[1].kind = "date"
    IN  SelectSeq(Indices(Len(raw.cols)), IsTs)

\* for c in raw.columns: if isinstance(c, pd.Timestamp)
HeaderDateCols(raw) ==
    LET IsTs(i) == raw.cols[i].hdr.kind = "date"
    IN  SelectSeq(Indices(Len(raw.cols)), IsTs)

date_cols(raw) ==
    IF SentinelDateCols(raw) # <<>> THEN SentinelDateCols(raw) ELSE HeaderDateCols(raw)

\* The first of the leading three columns whose header holds "Unnamed" or is
\* not blank; column 0 when there is none.
label_col(raw) ==
    LET Named(i) == \/ Contains(Str(raw.cols[i].hdr), <<"U", "n", "n", "a", "m", "e", "d">>)
                    \/ Strip(Str(raw.cols[i].hdr)) # <<>>
        lead == SelectSeq(Indices(IF Len(raw.cols) < 3 THEN Len(raw.cols) ELSE 3), Named)
    IN  IF lead # <<>> THEN lead[1] ELSE 1

\* df.iloc[1:]: the row positions that stay
DataRows(raw) == [i \in 1..(NRows(raw) - 1) |-> i + 1]

\* df[keep_cols].melt(id_vars=["Category"], var_name="Date", value_name="Amount")
Melt(raw, lab, dcols, rows) ==
    [k \in 1..(Len(dcols) * Len(rows)) |->
        LET c == dcols[((k - 1) \div Len(rows)) + 1]
            r == rows[((k - 1) % Len(rows)) + 1]
        IN  [Category |-> raw.cols[lab].cells[r],
             Date |-> raw.cols[c].hdr,
             Amount |-> raw.cols[c].cells[r]]]

\* The three cleaning assignments of parse_cashflow.
Clean(long) ==
    [k \in 1..Len(long) |->
        [Category |-> Strip(AsTypeStr(long[k].Category)),
         Date |-> ToDate(long[k].Date),
         Amount |-> _to_number(long[k].Amount)]]

\* dropna(subset=["Date"]) alone
DropNaDateOnly(long) == LET Ok(r) == ~r.Date.nat IN SelectSeq(long, Ok)

\* long_df.dropna(subset=["Date", "Amount"])
DropNaDateAmount(long) ==
    LET Ok(r) == ~r.Date.nat /\ r.Amount.tag = "float" IN SelectSeq(long, Ok)

\* Scenario, AmountSigned and AmountAbs
Tag(long, scenario_label) ==
    [k \in 1..Len(long) |->
        [Category |-> long[k].Category,
         Date |-> long[k].Date,
         Amount |-> long[k].Amount,
         Scenario |-> scenario_label,
         AmountSigned |-> long[k].Amount,
         AmountAbs |-> Abs(long[k].Amount)]]

\* ok = FALSE: raw.loc[0, c] raised KeyError on a sheet without data rows.
parse_cashflow(raw, scenario_label) ==
    IF NRows(raw) = 0 THEN [ok |-> FALSE]
    ELSE [ok |-> TRUE,
          df |-> Frame(Tag(DropNaDateAmount(
                     Clean(Melt(raw, label_col(raw), date_cols(raw), DataRows(raw)))),
                     scenario_label))]

\* pd.concat([a, b], ignore_index=True)
Concat(a, b) == [hascols |-> a.hascols \/ b.hascols, rows |-> a.rows \o b.rows]

\* cash.dropna(subset=["Date", "Scenario"])
DropNaDateScenario(rows) == LET Ok(r) == ~r.Date.nat IN SelectSeq(rows, Ok)

\* The number of leading columns the payables extraction needs.
PayCols == 6

\* pay.dropna(subset=["Expense", "ToPay"], how="any")
DropNaExpenseToPay(rows) ==
    LET Ok(r) == r.Expense.kind # "missing" /\ r.ToPay.tag = "float"
    IN  SelectSeq(rows, Ok)

\* The payables block of load_from_excel, for a sheet that is present.
Payables(sheet) ==
    IF sheet.ncols >= PayCols
    THEN LET typed ==
                 [k \in 1..Len(sheet.rows) |->
                     [Expense |-> sheet.rows[k][1],
                      Amount |-> _to_number(sheet.rows[k][2]),
                      Paid |-> _to_number(sheet.rows[k][3]),
                      Urgency |-> Strip(AsTypeStr(sheet.rows[k][4])),
                      DueDate |-> ToDate(sheet.rows[k][5]),
                      ToPay |-> _to_number(sheet.rows[k][6])]]
             kept == DropNaExpenseToPay(typed)
         IN  Frame([k \in 1..Len(kept) |->
                       [kept[k] EXCEPT !.Expense = Strip(AsTypeStr(kept[k].Expense))]])
    ELSE EmptyFrame

\* ok = FALSE: an exception left load_from_excel (KeyError from raw.loc in
\* parse_cashflow, or from cash.dropna on a frame without columns).
load_from_excel(xl) ==
    LET cash_with == IF xl.with.present THEN parse_cashflow(xl.with, WithPartners)
                     ELSE [ok |-> TRUE, df |-> EmptyFrame]
        cash_no == IF xl.no.present THEN parse_cashflow(xl.no, NoPartners)
                   ELSE [ok |-> TRUE, df |-> EmptyFrame]
    IN  IF ~cash_with.ok \/ ~cash_no.ok THEN [ok |-> FALSE]
        ELSE LET cash == Concat(cash_with.df, cash_no.df)
             IN  IF ~cash.hascols THEN [ok |-> FALSE]
                 ELSE [ok |-> TRUE,
                       cash |-> Frame(DropNaDateScenario(cash.rows)),
                       pay |-> IF xl.pay.present THEN Payables(xl.pay) ELSE EmptyFrame]


-----------------------------------------------------------------------------
(* The inputs: directories and workbooks.                                  *)

ReportXlsx == <<"a", ".", "x", "l", "s", "x">>
UpmXlsx == <<"U", "P", "M", ".", "X", "L", "S", "X">>
NotesTxt == <<"n", ".", "t", "x", "t">>

\* The header pandas gives a column without one.
Unnamed(j) == Text(<<"U", "n", "n", "a", "m", "e", "d", ":", " ">> \o NatToDigits(j))

AmountCells == {Missing, FloatCell(MkFloat(FALSE, 2, 0)), Text(<<"-", "3">>)}
Row0Cells == {DateCell(d) : d \in Dates} \cup {Text(<<"1", " ", "0", "0", "0", ",", "5">>)}

\* The cells of a value column of n rows: row 0, then the amounts.
ValueCells(n) ==
    IF n = 0 THEN {<<>>}
    ELSE {<<c>> \o rest : c \in Row0Cells, rest \in [1..(n - 1) -> AmountCells]}

\* A value column: its header (Missing: none, pandas names it) and its cells.
ValueColumns(n) == [hdr : {Missing} \cup {DateCell(d) : d \in Dates}, cells : ValueCells(n)]

LabelCells(n) == [r \in 1..n |-> Text(<<" ", "r">> \o NatToDigits(r))]

\* The sheet with the columns before, a label column and the value columns.
MkSheet(before, n, cols) ==
    LET b == Len(before)
    IN  [present |-> TRUE,
         cols |-> before
                  \o <<[hdr |-> Unnamed(b), cells |-> LabelCells(n)]>>
                  \o [j \in 1..Len(cols) |->
                        [hdr |-> IF cols[j].hdr = Missing THEN Unnamed(b + j) ELSE cols[j].hdr,
                         cells |-> cols[j].cells]]]

\* A leading column with a blank header and no values.
BlankColumn(n) == [hdr |-> Text(<<" ">>), cells |-> [r \in 1..n |-> Missing]]

DistinctDateHeaders(cols) ==
    \A i, j \in 1..Len(cols) : (i # j /\ cols[i].hdr # Missing) => cols[i].hdr # cols[j].hdr

\* The cashflow sheets: k value columns of n rows, at most MaxCells value
\* cells; a blank leading column only beside a single value column.
CashSheets(maxcols, maxrows, maxcells) ==
    UNION {UNION {{MkSheet(<<>>, n, cols) :
                      cols \in {c \in [1..k -> ValueColumns(n)] : DistinctDateHeaders(c)}}
                  \cup (IF k = 1
                        THEN {MkSheet(<<BlankColumn(n)>>, n, cols) : cols \in [1..k -> ValueColumns(n)]}
                        ELSE {}) :
                  n \in {m \in 0..maxrows : k * m <= maxcells}} :
           k \in 1..maxcols}

\* A sheet in the sentinel layout whose headers are dates too.
PlainSheet ==
    MkSheet(<<>>, 2, <<[hdr |-> DateCell(1),
                        cells |-> <<DateCell(1), FloatCell(MkFloat(FALSE, 5, 0 - 1))>>]>>)

DueCells == {Missing} \cup {DateCell(d) : d \in Dates}

PayRow(expense, urgency, due, topay) ==
    <<expense, FloatCell(MkFloat(FALSE, 9, 0)), Missing, urgency, due, topay>>

\* The rows of the payables sheet: the complete ones, and one for each way
\* the expense or the amount to pay can be missing.
PayRowSet ==
    {PayRow(Text(<<"R">>), u, d, FloatCell(MkFloat(FALSE, 2, 0))) :
        u \in {Text(<<"C">>), Text(<<" ", "L", " ">>)}, d \in DueCells}
    \cup {PayRow(Text(<<"T">>), Text(<<"C">>), DateCell(1), Text(<<"1", ",", "5">>)),
          PayRow(Missing, Text(<<"C">>), DateCell(1), FloatCell(MkFloat(FALSE, 2, 0))),
          PayRow(Text(<<" ">>), Text(<<"C">>), DateCell(1), FloatCell(MkFloat(FALSE, 2, 0))),
          PayRow(Text(<<"R">>), Text(<<"C">>), DateCell(1), Missing),
          PayRow(Text(<<"R">>), Text(<<"C">>), DateCell(1), Text(<<"-">>))}

PaySheets(maxrows) ==
    {[present |-> TRUE, ncols |-> PayCols, rows |-> rows] :
        rows \in UNION {[1..n -> PayRowSet] : n \in 0..maxrows}}
    \cup {[present |-> TRUE, ncols |-> PayCols - 1,
           rows |-> << <<Text(<<"R">>), Missing, Missing, Text(<<"C">>), DateCell(1)>> >>]}

PlainPay ==
    [present |-> TRUE, ncols |-> PayCols,
     rows |-> <<PayRow(Text(<<"R">>), Text(<<"C">>), Missing, FloatCell(MkFloat(FALSE, 2, 0)))>>]

Book(with, no, pay) == [with |-> with, no |-> no, pay |-> pay]

CashBooks(sheets) ==
    {Book(w, n, p) : w \in {Absent} \cup sheets,
                     n \in {Absent, PlainSheet},
                     p \in {Absent, PlainPay}}

PayBooks(sheets) == {Book(PlainSheet, Absent, p) : p \in {Absent} \cup sheets}

\* A second cashflow sheet, in the header layout.
OtherSheet ==
    MkSheet(<<>>, 3, <<[hdr |-> DateCell(1),
                        cells |-> <<Missing, Text(<<"-", "3">>), FloatCell(MkFloat(FALSE, 2, 0))>>]>>)

\* The workbooks a file is saved with while the process runs.
CacheBooks ==
    {Book(PlainSheet, Absent, PlainPay),
     Book(OtherSheet, PlainSheet, Absent),
     Book(Absent, Absent, PlainPay)}

-----------------------------------------------------------------------------
(* The script: file pick, cached load, aggregates, queries, second tab.    *)

NoFile == <<>>

XlsxExt == <<".", "x", "l", "s", "x">>
Keys ==
    << <<"CYR_PE", "CYR_O", "CYR_TE", "CYR_ER", "CYR_IE", "CYR_BE", "CYR_EN",
         "CYR_O", "CYR_ES", "CYR_TE", "CYR_SOFT">>,
       <<"u", "p", "m">>,
       <<"CYR_YU", "CYR_PE", "CYR_EM">> >>

\* f.lower().endswith(".xlsx")
IsXlsx(f) ==
    /\ Len(f) >= Len(XlsxExt)
    /\ SubSeq(Lower(f), Len(f) - Len(XlsxExt) + 1, Len(f)) = XlsxExt

_pick_excel_file(files) ==
    LET xlsx == SelectSeq(files, IsXlsx)
        Hits(key) == LET Has(f) == Contains(Lower(f), Lower(key)) IN SelectSeq(xlsx, Has)
        Found(key) == Hits(key) # <<>>
        found == SelectSeq(Keys, Found)
    IN  IF xlsx = <<>> THEN NoFile
        ELSE IF found # <<>> THEN Hits(found[1])[1]
        ELSE xlsx[1]

\* The sum one (Date, Scenario) group would get from the signed amounts.
GroupAmountSigned(rows, d, s) ==
    LET In(r) == r.Date = d /\ r.Scenario = s
        g == SelectSeq(rows, In)
    IN  FloatSum([k \in 1..Len(g) |-> g[k].AmountSigned])

\* .agg(Amount=("AmountAbs", "sum")) of one (Date, Scenario) group
GroupAmount(rows, d, s) ==
    LET In(r) == r.Date = d /\ r.Scenario = s
        g == SelectSeq(rows, In)
    IN  FloatSum([k \in 1..Len(g) |-> g[k].AmountAbs])

\* The order of groupby's sorted keys: by Date, then by Scenario.
KeyBefore(a, b) ==
    \/ a.Date.d < b.Date.d
    \/ a.Date.d = b.Date.d /\ a.Scenario = NoPartners /\ b.Scenario = WithPartners

RECURSIVE SortedKeys(_)
SortedKeys(ks) ==
    IF ks = {} THEN <<>>
    ELSE LET first == CHOOSE k \in ks : \A o \in ks \ {k} : KeyBefore(k, o)
         IN  <<first>> \o SortedKeys(ks \ {first})

\* cash_df.groupby(["Date", "Scenario"], as_index=False).agg(...)
GroupByDateScenario(rows) ==
    LET keys == SortedKeys({[Date |-> rows[i].Date, Scenario |-> rows[i].Scenario] :
                               i \in {j \in 1..Len(rows) : ~rows[j].Date.nat}})
    IN  [k \in 1..Len(keys) |->
            [Date |-> keys[k].Date,
             Scenario |-> keys[k].Scenario,
             Amount |-> GroupAmount(rows, keys[k].Date, keys[k].Scenario)]]

NoPeak == [Date |-> None, Amount |-> None]

\* The rows sort_values("Amount", ascending=True).iloc[0] can be.
scenario_trough(m, scn) ==
    LET Of(r) == r.Scenario = scn
        d == SelectSeq(m, Of)
    IN  IF d = <<>> THEN {NoPeak}
        ELSE {[Date |-> d[i].Date, Amount |-> Float(d[i].Amount)] :
                 i \in {j \in 1..Len(d) :
                           \A o \in 1..Len(d) : ~FloatLess(d[o].Amount, d[j].Amount)}}

\* What scenario_peak(scn) can return over monthly totals m: the sort is not
\* stable, so any row of the largest Amount can come first.
scenario_peak(m, scn) ==
    LET Of(r) == r.Scenario = scn
        d == SelectSeq(m, Of)
    IN  IF d = <<>> THEN {NoPeak}
        ELSE {[Date |-> d[i].Date, Amount |-> Float(d[i].Amount)] :
                 i \in {j \in 1..Len(d) :
                           \A o \in 1..Len(d) : ~FloatLess(d[j].Amount, d[o].Amount)}}

\* value_on(date_str, scn) over monthly totals m, dt the date date_str names
value_on(m, dt, scn) ==
    LET Of(r) == r.Scenario = scn /\ r.Date = dt
        hit == SelectSeq(m, Of)
    IN  IF hit = <<>> THEN Zero
        ELSE FloatSum([k \in 1..Len(hit) |-> Float(hit[k].Amount)])

\* The date of the script's two value_on calls ("2026-01-31").
JanDate == 1

Scenarios == {NoPartners, WithPartners}

Unset == [tag |-> "unset"]

\* excel_file = _pick_excel_file(), and the stop when there is none
PickExcelFile ==
    /\ pc = "start"
    /\ excel_file' = _pick_excel_file(listing)
    /\ IF excel_file' = NoFile
       THEN pc' = "stopped" /\ diag' = "SourceNotFound"
       ELSE pc' = "picked" /\ diag' = diag
    /\ UNCHANGED <<numVars, fileVars, cache, parsed, cash_df, pay_df, monthly, kpi, q>>

\* The cache key of a call load_from_excel(path): its argument.
CacheKey(path) == path

\* cash_df, pay_df = load_from_excel(excel_file) under @st.cache_data, and the
\* stop on an empty cash_df.  An exception leaves the call uncaught and ends
\* the run.
MainLoad ==
    /\ pc = "picked"
    /\ LET key == CacheKey(excel_file)
           hit == key \in DOMAIN cache
           got == IF hit THEN cache[key] ELSE load_from_excel(disk[excel_file])
       IN  /\ parsed' = ~hit
           /\ cache' = IF hit \/ ~got.ok THEN cache
                       ELSE [k \in DOMAIN cache \cup {key} |->
                                IF k = key THEN got ELSE cache[k]]
           /\ IF ~got.ok
              THEN /\ pc' = "crashed"
                   /\ UNCHANGED <<cash_df, pay_df, diag>>
              ELSE /\ cash_df' = got.cash
                   /\ pay_df' = got.pay
                   /\ IF IsEmpty(got.cash)
                      THEN pc' = "stopped" /\ diag' = "EmptyDataset"
                      ELSE pc' = "loaded" /\ diag' = diag
    /\ UNCHANGED <<numVars, fileVars, excel_file, monthly, kpi, q>>

\* monthly, the two peaks and the two January values
PrepareAggregates ==
    /\ pc = "loaded"
    /\ monthly' = GroupByDateScenario(cash_df.rows)
    /\ \E np \in scenario_peak(monthly', NoPartners),
          wp \in scenario_peak(monthly', WithPartners) :
          kpi' = [peak_np |-> np,
                  peak_wp |-> wp,
                  jan_np |-> value_on(monthly', Date(JanDate), NoPartners),
                  jan_wp |-> value_on(monthly', Date(JanDate), WithPartners)]
    /\ pc' = "ready"
    /\ UNCHANGED <<numVars, fileVars, cache, parsed, diag, excel_file, cash_df, pay_df, q>>

\* A call scenario_peak(scn)
ScenarioPeak ==
    /\ pc = "ready"
    /\ \E scn \in Scenarios :
          \E r \in scenario_peak(monthly, scn) :
             q' = [op |-> "scenario_peak", scn |-> scn, ret |-> r]
    /\ pc' = "answered"
    /\ UNCHANGED <<numVars, fileVars, cache, parsed, diag, excel_file, cash_df,
                   pay_df, monthly, kpi>>

\* A call value_on(date_str, scn)
ValueOn ==
    /\ pc = "ready"
    /\ \E d \in 1..(MaxDate + 1), scn \in Scenarios :
          q' = [op |-> "value_on", date |-> Date(d), scn |-> scn,
                ret |-> value_on(monthly, Date(d), scn)]
    /\ pc' = "answered"
    /\ UNCHANGED <<numVars, fileVars, cache, parsed, diag, excel_file, cash_df,
                   pay_df, monthly, kpi>>

\* The options of the urgency multiselect.
Urgencies(rows) == {rows[i].Urgency : i \in 1..Len(rows)} \ {<<>>}

\* if urg_sel: view = view[view["Urgency"].isin(urg_sel)]
FilterUrgency(rows, urg_sel) ==
    IF urg_sel # {}
    THEN LET In(r) == r.Urgency \in urg_sel IN SelectSeq(rows, In)
    ELSE rows

\* The lower bound applied to every row, the undated ones too.
FilterFromStrict(rows, date_from) ==
    IF ~date_from.nat
    THEN LET In(r) == ~r.DueDate.nat /\ r.DueDate.d >= date_from.d
         IN  SelectSeq(rows, In)
    ELSE rows

\* if date_from: view = view[view["DueDate"].isna() | (view["DueDate"] >= date_from)]
FilterFrom(rows, date_from) ==
    IF ~date_from.nat
    THEN LET In(r) == r.DueDate.nat \/ r.DueDate.d >= date_from.d
         IN  SelectSeq(rows, In)
    ELSE rows

\* if date_to: view = view[view["DueDate"].isna() | (view["DueDate"] <= date_to)]
FilterTo(rows, date_to) ==
    IF ~date_to.nat
    THEN LET In(r) == r.DueDate.nat \/ r.DueDate.d <= date_to.d
         IN  SelectSeq(rows, In)
    ELSE rows

\* view["ToPay"].fillna(0).sum()
TotalToPay(rows) ==
    FloatSum([k \in 1..Len(rows) |->
                 IF rows[k].ToPay.tag = "float" THEN rows[k].ToPay ELSE Float(Zero)])

\* The second tab: the warning on an empty pay_df, else the filtered view and
\* its total for the widgets' values (NaT is a date input left empty).
Tab2 ==
    /\ pc = "ready"
    /\ IF IsEmpty(pay_df)
       THEN q' = [op |-> "tab2", warning |-> TRUE]
       ELSE \E urg_sel \in SUBSET Urgencies(pay_df.rows),
               date_from \in {NaT} \cup {Date(d) : d \in Dates},
               date_to \in {NaT} \cup {Date(d) : d \in Dates} :
               LET view == FilterTo(FilterFrom(FilterUrgency(pay_df.rows, urg_sel),
                                               date_from), date_to)
               IN  q' = [op |-> "tab2", warning |-> FALSE, urg_sel |-> urg_sel,
                         date_from |-> date_from, date_to |-> date_to,
                         view |-> view, total_to_pay |-> TotalToPay(view)]
    /\ pc' = "answered"
    /\ UNCHANGED <<numVars, fileVars, cache, parsed, diag, excel_file, cash_df,
                   pay_df, monthly, kpi>>

\* The calls and the second tab read monthly and pay_df and write nothing the
\* script reads, so one of them after the aggregates stands for any number.
NextLoad == PickExcelFile \/ MainLoad \/ PrepareAggregates \/ ScenarioPeak \/ ValueOn \/ Tab2

\* Streamlit runs the script again, top to bottom, on every interaction;
\* the cache of load_from_excel outlives the run.
Rerun ==
    /\ pc \in {"ready", "answered", "stopped", "crashed"}
    /\ pc' = "start"
    /\ diag' = "none"
    /\ excel_file' = NoFile
    /\ cash_df' = EmptyFrame
    /\ pay_df' = EmptyFrame
    /\ monthly' = <<>>
    /\ kpi' = Unset
    /\ q' = Unset
    /\ UNCHANGED <<numVars, fileVars, cache, parsed>>

\* The file f of the directory is saved with another workbook in it.
ModifyFile ==
    /\ \E f \in DOMAIN disk :
          \E b \in CacheBooks \ {disk[f]} : disk' = [disk EXCEPT ![f] = b]
    /\ UNCHANGED <<numVars, listing, cache, parsed, runVars>>

NextCache == NextLoad \/ Rerun \/ ModifyFile

IdleNum == cell = Missing /\ res = NoRun /\ res2 = NoRun /\ npc = "idle"

IdleScript ==
    /\ listing = <<>>
    /\ disk = <<>>
    /\ cache = <<>>
    /\ parsed = FALSE
    /\ pc = "idle"
    /\ diag = "none"
    /\ excel_file = NoFile
    /\ cash_df = EmptyFrame
    /\ pay_df = EmptyFrame
    /\ monthly = <<>>
    /\ kpi = Unset
    /\ q = Unset

\* A fresh process: a directory listing, a workbook in each .xlsx file of
\* it, nothing cached, the script about to run.
InitScript(listings, books) ==
    /\ IdleNum
    /\ listing \in listings
    /\ disk \in [{listing[i] : i \in {j \in 1..Len(listing) : IsXlsx(listing[j])}} -> books]
    /\ cache = <<>>
    /\ parsed = FALSE
    /\ pc = "start"
    /\ diag = "none"
    /\ excel_file = NoFile
    /\ cash_df = EmptyFrame
    /\ pay_df = EmptyFrame
    /\ monthly = <<>>
    /\ kpi = Unset
    /\ q = Unset

InitCash ==
    InitScript({<<NotesTxt>>, <<NotesTxt, ReportXlsx>>},
               CashBooks(CashSheets(MaxDateCols, MaxRows, MaxCells)))
SpecCash == InitCash /\ [][NextLoad]_vars

InitPay == InitScript({<<NotesTxt>>, <<ReportXlsx>>}, PayBooks(PaySheets(MaxPayRows)))
SpecPay == InitPay /\ [][NextLoad]_vars

InitCache == InitScript({<<NotesTxt, ReportXlsx>>, <<ReportXlsx, UpmXlsx>>}, CacheBooks)
SpecCache == InitCache /\ [][NextCache]_vars

-----------------------------------------------------------------------------
(* The value normalizer run on one cell, then on the string of its result. *)

TextChars == {"1", ".", ",", "-", " ", "NBSP", "n", "a", "N"}
NumChars == {"0", "1", ".", "-"}

RECURSIVE Strings(_, _)
Strings(chars, n) ==
    IF n = 0 THEN {<<>>}
    ELSE LET shorter == Strings(chars, n - 1)
         IN  shorter \cup {Append(s, c) : s \in {t \in shorter : Len(t) = n - 1}, c \in chars}

\* The cells: missing, free-form text to length len, text of digits, "." and
\* "-" to length digits, the floats that text denotes, a few integers.
Cells(len, digits) ==
    {Missing}
    \cup {Text(s) : s \in Strings(TextChars, len)}
    \cup {Text(s) : s \in Strings(NumChars, digits)}
    \cup {FloatCell(PyFloat(s).v) : s \in {t \in Strings(NumChars, digits) : PyFloat(t).ok}}
    \cup {IntCell(n) : n \in {0 - 1, 0, 1, 10}}

InitNum ==
    /\ cell \in Cells(MaxLen, MaxDigits)
    /\ res = NoRun
    /\ res2 = NoRun
    /\ npc = "start"
    /\ IdleScript

\* r = _to_number(cell)
Normalize ==
    /\ npc = "start"
    /\ res' = _to_number(cell)
    /\ npc' = "normalized"
    /\ UNCHANGED <<cell, res2, scriptVars>>

\* _to_number(str(r)) for a number r
Renormalize ==
    /\ npc = "normalized"
    /\ res.tag = "float"
    /\ res2' = _to_number(Text(Str(FloatCell(res.v))))
    /\ npc' = "renormalized"
    /\ UNCHANGED <<cell, res, scriptVars>>

NextNum == Normalize \/ Renormalize

SpecNum == InitNum /\ [][NextNum]_vars

-----------------------------------------------------------------------------
(* Claims about the loader and the aggregates.                             *)

\* The run has a dataset: load_from_excel returned.
Loaded == pc \in {"loaded", "ready", "answered"} \/ (pc = "stopped" /\ diag = "EmptyDataset")

\* The workbook the run loaded (no file changes under SpecCash and SpecPay).
Workbook == disk[excel_file]

\* v in hundredths, as an integer.
Cents(v) == Scaled(v, 0 - 2)

RECURSIVE SumOver(_, _)
SumOver(S, f) ==
    IF S = {} THEN 0 ELSE LET x == CHOOSE y \in S : TRUE IN f[x] + SumOver(S \ {x}, f)

RowsOf(df, scn) == {i \in 1..Len(df.rows) : df.rows[i].Scenario = scn}

\* The cells of a sheet that parse_cashflow reads an amount from, as
\* <<column, row>>: the date columns it found, the rows it kept.
ReadCells(raw) ==
    IF ~raw.present \/ NRows(raw) = 0 THEN {}
    ELSE Range(date_cols(raw)) \X (2..NRows(raw))

\* A cell whose column header resolves to a date and whose value normalizes
\* to a number.
Usable(raw, cr) ==
    /\ ~ToDate(raw.cols[cr[1]].hdr).nat
    /\ _to_number(raw.cols[cr[1]].cells[cr[2]]).tag = "float"

SheetOf(scn) == IF scn = WithPartners THEN Workbook.with ELSE Workbook.no

(* C1: every record of the dataset load_from_excel returns has a Date, a   *)
(* non-empty Scenario and an Amount; a cell whose date does not resolve or *)
(* whose amount normalizes to None gives no record, it is never defaulted: *)
(* the records of a scenario are exactly the usable cells of its sheet.    *)
C1_RecordsComplete ==
    Loaded =>
        /\ \A i \in 1..Len(cash_df.rows) :
              LET r == cash_df.rows[i]
              IN  /\ ~r.Date.nat
                  /\ r.Scenario \in Scenarios
                  /\ r.Scenario # ""
                  /\ r.Amount.tag = "float"
                  /\ r.AmountSigned.tag = "float"
                  /\ \E cr \in ReadCells(SheetOf(r.Scenario)) :
                        /\ Usable(SheetOf(r.Scenario), cr)
                        /\ ToDate(SheetOf(r.Scenario).cols[cr[1]].hdr) = r.Date
                        /\ _to_number(SheetOf(r.Scenario).cols[cr[1]].cells[cr[2]]) = r.Amount
        /\ \A scn \in Scenarios :
              Cardinality(RowsOf(cash_df, scn))
                  = Cardinality({cr \in ReadCells(SheetOf(scn)) : Usable(SheetOf(scn), cr)})

\* A sheet with a usable cell and, under a date header too, a cell without
\* amount, loaded: one gives a record, the other none.
C1_Witness ==
    /\ pc = "loaded"
    /\ RowsOf(cash_df, WithPartners) # {}
    /\ \E cr \in ReadCells(Workbook.with) :
          /\ ~ToDate(Workbook.with.cols[cr[1]].hdr).nat
          /\ _to_number(Workbook.with.cols[cr[1]].cells[cr[2]]) = None

\* r is what scenario_peak(scn) may return over the monthly totals m.
IsPeak(m, scn, r) ==
    LET rows == {i \in 1..Len(m) : m[i].Scenario = scn}
    IN  IF rows = {} THEN r = NoPeak
        ELSE /\ r.Amount.tag = "float"
             /\ r.Date # None
             /\ \E i \in rows : m[i].Date = r.Date /\ m[i].Amount = r.Amount.v
             /\ \A j \in rows : Cents(m[j].Amount) <= Cents(r.Amount.v)

(* C5: scenario_peak(scn) returns (None, None) exactly when the monthly     *)
(* totals have no row of the scenario, and otherwise the Date and Amount of *)
(* a row of the scenario whose Amount is the largest; never a zero for a    *)
(* scenario without records.                                                *)
C5_ScenarioPeak ==
    /\ (pc = "answered" /\ q.op = "scenario_peak") => IsPeak(monthly, q.scn, q.ret)
    /\ pc \in {"ready", "answered"} =>
          /\ IsPeak(monthly, NoPartners, kpi.peak_np)
          /\ IsPeak(monthly, WithPartners, kpi.peak_wp)

\* The peak of a scenario with two monthly totals of different amounts, in a
\* run whose other scenario has no records.
C5_Witness ==
    /\ pc = "answered"
    /\ q.op = "scenario_peak"
    /\ q.scn = WithPartners
    /\ \E i, j \in 1..Len(monthly) :
          /\ monthly[i].Scenario = WithPartners
          /\ monthly[j].Scenario = WithPartners
          /\ Cents(monthly[i].Amount) < Cents(monthly[j].Amount)
          /\ q.ret.Amount = Float(monthly[j].Amount)
    /\ kpi.peak_np = NoPeak

\* The sum of |AmountSigned| over the records of date d and scenario scn, in
\* hundredths.
AbsCents(d, scn) ==
    LET hit == {i \in 1..Len(cash_df.rows) :
                   cash_df.rows[i].Date = d /\ cash_df.rows[i].Scenario = scn}
        mag == [i \in hit |->
                   LET c == Cents(cash_df.rows[i].AmountSigned.v) IN IF c < 0 THEN 0 - c ELSE c]
    IN  SumOver(hit, mag)

(* C6: value_on(d, s) is the sum of the absolute amounts of the records of *)
(* date d and scenario s, whatever their signs, and 0.0 when there is none; *)
(* the monthly totals hold one row for each (Date, Scenario) pair of the    *)
(* records, carrying that sum.                                              *)
C6_ValueOn ==
    /\ (pc = "answered" /\ q.op = "value_on") =>
          /\ Cents(q.ret) = AbsCents(q.date, q.scn)
          /\ (\A i \in 1..Len(cash_df.rows) :
                 ~(cash_df.rows[i].Date = q.date /\ cash_df.rows[i].Scenario = q.scn))
             => q.ret = Zero
    /\ pc \in {"ready", "answered"} =>
          /\ \A i, j \in 1..Len(monthly) :
                (monthly[i].Date = monthly[j].Date /\ monthly[i].Scenario = monthly[j].Scenario)
                => i = j
          /\ {<<monthly[i].Date, monthly[i].Scenario>> : i \in 1..Len(monthly)}
                = {<<cash_df.rows[i].Date, cash_df.rows[i].Scenario>> : i \in 1..Len(cash_df.rows)}
          /\ \A i \in 1..Len(monthly) :
                Cents(monthly[i].Amount) = AbsCents(monthly[i].Date, monthly[i].Scenario)
          /\ kpi.jan_np = value_on(monthly, Date(JanDate), NoPartners)
          /\ Cents(kpi.jan_np) = AbsCents(Date(JanDate), NoPartners)
          /\ Cents(kpi.jan_wp) = AbsCents(Date(JanDate), WithPartners)

\* A lookup that sums two records of one date and scenario, one of them
\* negative.
C6_Witness ==
    /\ pc = "answered"
    /\ q.op = "value_on"
    /\ \E i, j \in 1..Len(cash_df.rows) :
          /\ i # j
          /\ cash_df.rows[i].Date = q.date /\ cash_df.rows[i].Scenario = q.scn
          /\ cash_df.rows[j].Date = q.date /\ cash_df.rows[j].Scenario = q.scn
          /\ cash_df.rows[i].AmountSigned.v.neg
          /\ ~cash_df.rows[j].AmountSigned.v.neg
    /\ Cents(q.ret) = 500

(* C8: with any of the recognized sheets absent the load ends without an   *)
(* unhandled exception: an absent scenario sheet gives no record of its     *)
(* scenario, an absent payables sheet an empty pay_df, and an empty         *)
(* cash_df stops the run with the EmptyDataset message (not the             *)
(* SourceNotFound one).  The scenario sheets that are present have rows.    *)
C8_AbsentSheets ==
    (/\ pc \notin {"start", "picked"}
     /\ excel_file # NoFile
     /\ Workbook.with.present => NRows(Workbook.with) > 0
     /\ Workbook.no.present => NRows(Workbook.no) > 0)
    => /\ pc # "crashed"
       /\ ~Workbook.with.present => RowsOf(cash_df, WithPartners) = {}
       /\ ~Workbook.no.present => RowsOf(cash_df, NoPartners) = {}
       /\ ~Workbook.pay.present => IsEmpty(pay_df)
       /\ IsEmpty(cash_df) => (pc = "stopped" /\ diag = "EmptyDataset")
       /\ diag = "EmptyDataset" => diag # "SourceNotFound"

\* The calendar date of a date-bearing column: the sentinel row's when the
\* sentinel row carries dates, the header's otherwise.
ColumnDate(raw, c) ==
    IF SentinelDateCols(raw) # <<>> THEN Date(raw.cols[c].cells[1].d)
    ELSE Date(raw.cols[c].hdr.d)

\* The cells of the data rows under the date-bearing columns: the sentinel
\* row is no data row, the first row of the header layout is one.
DataCells(raw) ==
    IF SentinelDateCols(raw) # <<>>
    THEN Range(SentinelDateCols(raw)) \X (2..NRows(raw))
    ELSE Range(HeaderDateCols(raw)) \X (1..NRows(raw))

\* No column carries one date in its header and another in the sentinel row.
OneDatePerColumn(raw) ==
    \A c \in 1..Len(raw.cols) :
       (raw.cols[c].hdr.kind = "date" /\ raw.cols[c].cells[1].kind = "date")
       => raw.cols[c].hdr.d = raw.cols[c].cells[1].d

(* C10: in both layouts (dates in the headers, dates in the sentinel row)  *)
(* parse_cashflow gives one record for each cell of a data row under a      *)
(* date-bearing column whose amount is a number, dated by that column; the  *)
(* row under the header is dropped only when it is the sentinel row.        *)
C10_BothLayouts ==
    (Loaded /\ Workbook.with.present /\ OneDatePerColumn(Workbook.with)) =>
        \A d \in Dates :
           \A a \in {_to_number(x) : x \in AmountCells} \ {None} :
              Cardinality({i \in RowsOf(cash_df, WithPartners) :
                              cash_df.rows[i].Date = Date(d) /\ cash_df.rows[i].Amount = a})
                = Cardinality({cr \in DataCells(Workbook.with) :
                                  /\ ColumnDate(Workbook.with, cr[1]) = Date(d)
                                  /\ _to_number(Workbook.with.cols[cr[1]].cells[cr[2]]) = a})

-----------------------------------------------------------------------------
(* Claims about the payables.                                              *)

(* C2: every record of the payables has a non-empty Expense after trimming *)
(* and a ToPay; a row whose expense is missing, blank or whitespace, or     *)
(* whose amount to pay is no number, is excluded.                           *)
C2_PayablesComplete ==
    Loaded => \A i \in 1..Len(pay_df.rows) :
                 /\ pay_df.rows[i].Expense # <<>>
                 /\ pay_df.rows[i].ToPay.tag = "float"

InRange(r, date_from, date_to) ==
    \/ r.DueDate.nat
    \/ /\ date_from.nat \/ date_from.d <= r.DueDate.d
       /\ date_to.nat \/ r.DueDate.d <= date_to.d

ToPayCents(rows) ==
    SumOver(1..Len(rows), [i \in 1..Len(rows) |-> Cents(rows[i].ToPay.v)])

(* C7 as stated: the filter returns exactly the records whose Urgency is in *)
(* the urgency set and whose DueDate is absent or within the inclusive,     *)
(* possibly open, range, and the sum of their ToPay.                        *)
C7_Original ==
    (pc = "answered" /\ q.op = "tab2" /\ ~q.warning) =>
        LET In(r) == r.Urgency \in q.urg_sel /\ InRange(r, q.date_from, q.date_to)
        IN  /\ q.view = SelectSeq(pay_df.rows, In)
            /\ Cents(q.total_to_pay) = ToPayCents(q.view)

(* C7, amended: a non-empty urgency set keeps the records whose Urgency is  *)
(* in it and an empty one keeps every urgency; of these the filter returns  *)
(* exactly the records whose DueDate is absent or within the range, and the *)
(* sum of their ToPay.                                                      *)
C7_PayablesFilter ==
    (pc = "answered" /\ q.op = "tab2" /\ ~q.warning) =>
        LET In(r) == /\ q.urg_sel = {} \/ r.Urgency \in q.urg_sel
                     /\ InRange(r, q.date_from, q.date_to)
        IN  /\ q.view = SelectSeq(pay_df.rows, In)
            /\ Cents(q.total_to_pay) = ToPayCents(q.view)

\* A filter with an urgency set and both bounds that keeps an undated record
\* and drops a record of a selected urgency that is due before the range.
C7_Witness ==
    /\ pc = "answered"
    /\ q.op = "tab2"
    /\ ~q.warning
    /\ q.urg_sel # {}
    /\ ~q.date_from.nat
    /\ ~q.date_to.nat
    /\ \E i \in 1..Len(q.view) : q.view[i].DueDate.nat
    /\ \E i \in 1..Len(pay_df.rows) :
          /\ pay_df.rows[i].Urgency \in q.urg_sel
          /\ ~pay_df.rows[i].DueDate.nat
          /\ pay_df.rows[i].DueDate.d < q.date_from.d
    /\ Cents(q.total_to_pay) = 200

-----------------------------------------------------------------------------
(* Claim about the memoized load.                                          *)

(* C9: a load returns what the file holds at the time of the load, never   *)
(* the dataset of an earlier content, and a load of a file whose cached     *)
(* dataset is that of its present content does not run the parser.          *)
C9_MemoByIdentity ==
    [][(pc = "picked" /\ pc' # "picked") =>
          LET fresh == load_from_excel(disk[excel_file])
          IN  /\ IF fresh.ok
                 THEN pc' # "crashed" /\ cash_df' = fresh.cash /\ pay_df' = fresh.pay
                 ELSE pc' = "crashed"
              /\ (excel_file \in DOMAIN cache /\ cache[excel_file] = fresh) => ~parsed']_vars

-----------------------------------------------------------------------------
(* Claims about the value normalizer.                                      *)

(* C3: _to_number never raises, and a missing, blank or "nan" cell, a cell *)
(* of pure punctuation and a cell with several commas and no period all    *)
(* give None.                                                              *)

Blank(s) == Strip(s) = <<>>
NanLiteral(s) == Lower(Strip(s)) = <<"n", "a", "n">>
PurePunctuation(s) == s # <<>> /\ \A i \in 1..Len(s) : s[i] \in {".", ",", "-"}
SeveralCommasNoPeriod(s) == Count(s, ",") >= 2 /\ Count(s, ".") = 0

Malformed(x) ==
    \/ x.kind = "missing"
    \/ /\ x.kind = "text"
       /\ \/ Blank(x.s)
          \/ NanLiteral(x.s)
          \/ PurePunctuation(Strip(x.s))
          \/ SeveralCommasNoPeriod(x.s)

C3_NeverRaises ==
    npc # "start" => /\ res # Raised
                     /\ res.tag \in {"None", "float"}
                     /\ Malformed(cell) => res = None

C3_Witness ==
    /\ npc = "normalized"
    /\ cell.kind = "text"
    /\ SeveralCommasNoPeriod(cell.s)
    /\ \E i \in 1..Len(cell.s) : cell.s[i] \in Digits
    /\ res = None

(* C4: normalizing the string of a normalized number gives the number.     *)
C4_Idempotent == npc = "renormalized" => res2 = res

====
